---- MODULE Spec2Model ----
(***************************************************************************)
(* Bookmark manager: the Express server of server.js, which keeps the      *)
(* whole collection in one JSON document (bookmarks.json) and serves       *)
(* list / create / update / delete / clear / import / export requests.     *)
(*                                                                         *)
(* Numbers.  Date.now() is an integer number of milliseconds.  An id made  *)
(* by Import is Date.now() + Math.random(), a double: at today's epoch     *)
(* (about 1.7e12 < 2^41) a double has 2^12 values per millisecond, and a   *)
(* random term within half a step of 1 rounds up to the next integer.      *)
(* All ids are therefore kept as integers in units of 1/RandSteps ms:      *)
(* the id n*RandSteps is the integer n, every other id has a fraction.     *)
(*                                                                         *)
(* Objects.  A JavaScript object is a function from its own keys to        *)
(* values; a key the object lacks is not in the DOMAIN.                    *)
(***************************************************************************)
EXTENDS Integers, Sequences, FiniteSets, TLC

\* ---------------------------------------------------------------- bounds
RandSteps == 2      \* distinct values of Date.now() + Math.random() per ms
MaxClock  == 5      \* last millisecond the model's clock reaches
DayLen    == 2      \* milliseconds per calendar day, scaled down
MaxLen    == 5      \* longest collection a request may produce
MaxImport == 2      \* longest hand-written import payload
MaxServed == 3      \* requests served in one run
MaxFaultServed == 2 \* requests served in one run with a failing disk
MaxInFlight == 2    \* calls of the client awaiting their response at a time
MaxCalls  == 3      \* calls the client makes in one run
MaxGestures == 1    \* things the user does in one run that make no call

\* ------------------------------------------------------ JavaScript values
Undefined == "undefined"

\* o.k, for a key that holds a string or is missing
Get(o, k) == IF k \in DOMAIN o THEN o[k] ELSE Undefined

\* !v for v a string or undefined
Falsy(v) == v = Undefined \/ v = ""

\* v || ''
OrEmpty(v) == IF Falsy(v) THEN "" ELSE v

\* { ...o, ...p }
Spread(o, p) ==
  [k \in DOMAIN o \cup DOMAIN p |-> IF k \in DOMAIN p THEN p[k] ELSE o[k]]

\* parseInt(String(x)): the digits before the decimal point
ParseInt(x) == (x \div RandSteps) * RandSteps

\* new Date().toISOString().split('T')[0], as a day number
Today(t) == t \div DayLen

\* bookmarks.filter(pred), pred given as the set of kept indices
RECURSIVE FilterSeq(_, _)
FilterSeq(s, keep) ==
  IF s = <<>> THEN <<>>
  ELSE LET rest == FilterSeq(Tail(s), {i - 1 : i \in keep \ {1}})
       IN  IF 1 \in keep THEN <<Head(s)>> \o rest ELSE rest

\* bookmarks.findIndex(b => b.id === id); 0 stands for -1
FindIndex(bookmarks, id) ==
  LET hits == {i \in 1..Len(bookmarks) :
                 "id" \in DOMAIN bookmarks[i] /\ bookmarks[i].id = id}
  IN  IF hits = {} THEN 0 ELSE CHOOSE i \in hits : \A j \in hits : i <= j

\* ------------------------------------------------------------ the store
\* defaultBookmarks of initializeBookmarksFile, written at time t
DefaultBookmarks(t) ==
  << [id |-> 1 * RandSteps, title |-> "React Documentation",
      url |-> "https://react.dev", category |-> "Development",
      description |-> "Official React documentation and guides",
      dateAdded |-> Today(t)],
     [id |-> 2 * RandSteps, title |-> "MDN Web Docs",
      url |-> "https://developer.mozilla.org", category |-> "Development",
      description |-> "Web development resources and references",
      dateAdded |-> Today(t)],
     [id |-> 3 * RandSteps, title |-> "GitHub",
      url |-> "https://github.com", category |-> "Tools",
      description |-> "Code hosting and collaboration platform",
      dateAdded |-> Today(t)] >>

\* JSON.stringify of an array of objects: a key whose value is undefined is
\* left out; strings and finite numbers are written exactly
JSONstringify(bookmarks) ==
  [i \in 1..Len(bookmarks) |->
     LET o == bookmarks[i]
         keys == {k \in DOMAIN o : k = "id" \/ k = "dateAdded" \/ o[k] # Undefined}
     IN  [k \in keys |-> o[k]]]

\* The document on disk: parses tells whether readFile and JSON.parse both
\* succeed, value is the array of records the text holds.
\* readBookmarks: the parsed document, [] when reading or parsing throws
readBookmarks(f) == IF f.parses THEN f.value ELSE <<>>

\* What fs.writeFile(BOOKMARKS_FILE, text) does.  It opens the file with flag
\* 'w', which truncates it, and then writes the text: it completes (Written),
\* throws before the file is opened (Refused: no permission, read-only file
\* system, no descriptor left) and leaves the document as it was, or throws
\* after the truncation (Torn: disk full, quota, I/O error) and leaves an empty
\* or partial text, which does not parse.
Written == "written"
Refused == "refused"
Torn    == "torn"

\* writeBookmarks: the new document and true, or false when writeFile throws;
\* ok is what writeFile does
writeBookmarks(f, bookmarks, ok) ==
  IF ok = Written
  THEN [success |-> TRUE, store |-> [parses |-> TRUE, value |-> JSONstringify(bookmarks)]]
  ELSE [success |-> FALSE,
        store |-> IF ok = Refused THEN f ELSE [parses |-> FALSE, value |-> <<>>]]

\* response bodies: { error: msg }, { message: msg }, and a JSON array (kept
\* under a key of its own, so that every body is an object)
Err(msg) == [error |-> msg]
Msg(msg) == [message |-> msg]
Arr(a)   == [array |-> a]

\* ------------------------------------------------------------- handlers
\* Each handler is a function of the document, the request, the clock and
\* the outcome of the write; it yields the response and the new document.

\* a validation that looks at the title alone
MissingRequired_TitleOnly(body) == Falsy(Get(body, "title"))

\* if (!title || !url): the request lacks a required field
MissingRequired(body) == Falsy(Get(body, "title")) \/ Falsy(Get(body, "url"))

\* a List that reports a document it cannot read
GetBookmarks_Propagates(f) ==
  IF f.parses
  THEN [status |-> 200, body |-> Arr(f.value), store |-> f]
  ELSE [status |-> 500, body |-> Err("Failed to read bookmarks"), store |-> f]

\* app.get('/api/bookmarks')
GetBookmarks(f) ==
  [status |-> 200, body |-> Arr(readBookmarks(f)), store |-> f]

\* app.post('/api/bookmarks')
PostBookmark(f, body, t, ok) ==
  LET title == Get(body, "title")
      url   == Get(body, "url")
  IN  IF MissingRequired(body)
      THEN [status |-> 400, body |-> Err("Title and URL are required"), store |-> f]
      ELSE LET bookmarks   == readBookmarks(f)
               newBookmark == [id          |-> t * RandSteps,
                               title       |-> title,
                               url         |-> url,
                               category    |-> OrEmpty(Get(body, "category")),
                               description |-> OrEmpty(Get(body, "description")),
                               dateAdded   |-> Today(t)]
               w == writeBookmarks(f, Append(bookmarks, newBookmark), ok)
           IN  IF w.success
               THEN [status |-> 201, body |-> newBookmark, store |-> w.store]
               ELSE [status |-> 500, body |-> Err("Failed to save bookmark"), store |-> w.store]

\* app.put('/api/bookmarks/:id')
PutBookmark(f, path, body, ok) ==
  LET bookmarkId == ParseInt(path)
      title == Get(body, "title")
      url   == Get(body, "url")
  IN  IF MissingRequired(body)
      THEN [status |-> 400, body |-> Err("Title and URL are required"), store |-> f]
      ELSE LET bookmarks     == readBookmarks(f)
               bookmarkIndex == FindIndex(bookmarks, bookmarkId)
           IN  IF bookmarkIndex = 0
               THEN [status |-> 404, body |-> Err("Bookmark not found"), store |-> f]
               ELSE LET updated ==
                          Spread(bookmarks[bookmarkIndex],
                                 [title       |-> title,
                                  url         |-> url,
                                  category    |-> OrEmpty(Get(body, "category")),
                                  description |-> OrEmpty(Get(body, "description"))])
                        w == writeBookmarks(
                               f, [bookmarks EXCEPT ![bookmarkIndex] = updated], ok)
                    IN  IF w.success
                        THEN [status |-> 200, body |-> updated, store |-> w.store]
                        ELSE [status |-> 500, body |-> Err("Failed to update bookmark"),
                              store |-> w.store]

\* app.delete('/api/bookmarks/:id')
DeleteBookmark(f, path, ok) ==
  LET bookmarkId == ParseInt(path)
      bookmarks  == readBookmarks(f)
      filteredBookmarks ==
        FilterSeq(bookmarks, {i \in 1..Len(bookmarks) :
                                ~("id" \in DOMAIN bookmarks[i]
                                  /\ bookmarks[i].id = bookmarkId)})
  IN  IF Len(filteredBookmarks) = Len(bookmarks)
      THEN [status |-> 404, body |-> Err("Bookmark not found"), store |-> f]
      ELSE LET w == writeBookmarks(f, filteredBookmarks, ok)
           IN  IF w.success
               THEN [status |-> 200, body |-> Msg("Bookmark deleted successfully"),
                     store |-> w.store]
               ELSE [status |-> 500, body |-> Err("Failed to delete bookmark"),
                     store |-> w.store]

\* a clear-all that puts the seed records back
ClearBookmarks_Reseed(f, ok) ==
  LET w == writeBookmarks(f, DefaultBookmarks(0), ok)
  IN  IF w.success
      THEN [status |-> 200, body |-> Msg("All bookmarks cleared successfully"),
            store |-> w.store]
      ELSE [status |-> 500, body |-> Err("Failed to clear bookmarks"), store |-> w.store]

\* app.delete('/api/bookmarks')
ClearBookmarks(f, ok) ==
  LET w == writeBookmarks(f, <<>>, ok)
  IN  IF w.success
      THEN [status |-> 200, body |-> Msg("All bookmarks cleared successfully"),
            store |-> w.store]
      ELSE [status |-> 500, body |-> Err("Failed to clear bookmarks"), store |-> w.store]

\* an import that rebuilds each record from the four form fields, and so
\* loses whatever else the input record carries
BookmarksWithNewIds_Rebuilt(importedBookmarks, t, rnd) ==
  [i \in 1..Len(importedBookmarks) |->
     [id          |-> t * RandSteps + rnd[i],
      title       |-> Get(importedBookmarks[i], "title"),
      url         |-> Get(importedBookmarks[i], "url"),
      category    |-> OrEmpty(Get(importedBookmarks[i], "category")),
      description |-> OrEmpty(Get(importedBookmarks[i], "description"))]]

\* bookmarksWithNewIds: rnd[i] is the random term of record i, in steps; the
\* step RandSteps is a term that rounds up to the next integer
BookmarksWithNewIds(importedBookmarks, t, rnd) ==
  [i \in 1..Len(importedBookmarks) |->
     Spread(importedBookmarks[i], [id |-> t * RandSteps + rnd[i]])]

\* an import that puts the new records first
AllBookmarks_Prepend(currentBookmarks, bookmarksWithNewIds) ==
  bookmarksWithNewIds \o currentBookmarks

\* [...currentBookmarks, ...bookmarksWithNewIds]
AllBookmarks(currentBookmarks, bookmarksWithNewIds) ==
  currentBookmarks \o bookmarksWithNewIds

\* app.post('/api/bookmarks/import'); payload.isArray is Array.isArray(...)
ImportBookmarks(f, payload, t, rnd, ok) ==
  IF ~payload.isArray
  THEN [status |-> 400, body |-> Err("Invalid bookmarks format"), store |-> f]
  ELSE LET importedBookmarks == payload.items
           currentBookmarks  == readBookmarks(f)
           allBookmarks ==
             AllBookmarks(currentBookmarks,
                          BookmarksWithNewIds(importedBookmarks, t, rnd))
           w == writeBookmarks(f, allBookmarks, ok)
       IN  IF w.success
           THEN [status |-> 200,
                 body |-> [message |-> "Successfully imported",
                           count |-> Len(importedBookmarks)],
                 store |-> w.store]
           ELSE [status |-> 500, body |-> Err("Failed to import bookmarks"),
                 store |-> w.store]

\* app.get('/api/bookmarks/export')
ExportBookmarks(f) ==
  [status |-> 200, body |-> Arr(readBookmarks(f)), store |-> f]

\* ---------------------------------------------------------------- state
VARIABLES
  file,       \* bookmarks.json
  writable,   \* what fs.writeFile does: Written, Refused or Torn
  now,        \* Date.now(), in ms
  exported,   \* the document the last Export downloaded, and the file it was made from
  last,       \* the last request served, its response, the document before
              \* and after it, what writeFile did then, and whether the
              \* request before it was a successful Clear-all
  served,     \* number of requests served so far
  pending,    \* requests being handled when handlers interleave
  build,      \* which of the two BookmarkManager components of App.js runs
  mirror,     \* the component's bookmarks state
  loading,    \* its loading state
  error,      \* its error state
  searchTerm, \* its searchTerm state
  selectedCategory,  \* its selectedCategory state
  editingBookmark,   \* its editingBookmark state
  calls,      \* the apiCall promises not yet settled, each with the closure
              \* of the handler that awaits it
  dirty,      \* a render has been committed whose effect has not run yet
  trail       \* what the component has done so far

\* the part of the state the server alone has, the component's, and the rest
serverVars == <<file, writable, now, exported, last, served>>
clientVars == <<build, mirror, loading, error, searchTerm, selectedCategory,
                editingBookmark, calls, dirty, trail>>
otherVars  == <<pending, clientVars>>
vars == <<serverVars, otherVars>>

StartClock == Len(DefaultBookmarks(0)) + 1

NoBody == [none |-> TRUE]

\* a request slot with no request in it
NoRequest ==
  [phase |-> "idle", op |-> "none", path |-> 0, req |-> NoBody, rnd |-> <<>>,
   snap |-> [parses |-> TRUE, value |-> <<>>], t |-> 0, sawWrites |-> 0,
   status |-> 0, body |-> NoBody, order |-> 0]

\* the server has started, at time t, on document f
ServerStarted(f, t) ==
  /\ now = t
  /\ file = f
  /\ writable = Written
  /\ exported = [present |-> FALSE, doc |-> <<>>, source |-> file]
  /\ last = [op |-> "init", path |-> 0, req |-> NoBody, status |-> 0,
             body |-> NoBody, pre |-> file, post |-> file, t |-> StartClock,
             disk |-> Written, afterClear |-> FALSE]
  /\ served = 0
  /\ pending = [i \in 1..2 |-> NoRequest]

\* bookmarks.json as initializeBookmarksFile writes it
SeedDocument ==
  [parses |-> TRUE, value |-> JSONstringify(DefaultBookmarks(StartClock))]

ServerInit == ServerStarted(SeedDocument, StartClock)

\* the component's states that hold null
NoError  == [prefix |-> "", message |-> ""]
NoRecord == [none |-> TRUE]

\* a slot of calls with no call in it
NoCall ==
  [phase |-> "idle", kind |-> "none", path |-> 0, req |-> NoBody,
   bookmarks |-> <<>>, editing |-> NoRecord, status |-> 0, body |-> NoBody]

NoTrail ==
  [issued |-> 0, gestures |-> 0, lists |-> 0, reloads |-> 0,
   overlapped |-> FALSE, raced |-> FALSE, lost |-> FALSE, failed |-> FALSE]

\* useState(...): the component's initial state; no call made yet
Unmounted ==
  /\ mirror = <<>>
  /\ loading = TRUE
  /\ error = NoError
  /\ searchTerm = ""
  /\ selectedCategory = "All"
  /\ editingBookmark = NoRecord
  /\ calls = [i \in 1..MaxInFlight |-> NoCall]
  /\ dirty = FALSE
  /\ trail = NoTrail

\* the server alone: no page is open
Init ==
  /\ ServerInit
  /\ build = 1
  /\ Unmounted

\* ----------------------------------------------------------- the inputs
\* request bodies of Create and Update: title / url missing, empty or given
ReqBodies ==
  { [title |-> "A", url |-> "u"],
    [title |-> "B", url |-> "u", category |-> "c", description |-> "d"],
    [url |-> "u"],
    [title |-> "", url |-> "u"],
    [title |-> "A"],
    [title |-> "A", url |-> "", category |-> "c"] }

\* path parameters: the id of every stored record, the next id above each
\* (one step: a fraction), and 0, which no record has
PathIds(f) ==
  LET ids == {readBookmarks(f)[i].id : i \in 1..Len(readBookmarks(f))}
  IN  ids \cup {x + 1 : x \in ids} \cup {0}

\* records of a hand-written import payload: without category, description
\* and dateAdded; and complete, carrying the id of a seeded record
ImportRecords ==
  { [title |-> "X", url |-> "x"],
    [id |-> 1 * RandSteps, title |-> "Y", url |-> "y", category |-> "c",
     description |-> "d", dateAdded |-> 0] }

SeqsUpTo(S, n) == UNION {[1..k -> S] : k \in 0..n}

\* the exported document with the id of every record removed
StripIds(doc) ==
  [i \in 1..Len(doc) |-> [k \in DOMAIN doc[i] \ {"id"} |-> doc[i][k]]]

ImportPayloads ==
  {[isArray |-> TRUE, items |-> s] : s \in SeqsUpTo(ImportRecords, MaxImport)}
    \cup {[isArray |-> FALSE, items |-> <<>>]}
    \cup (IF exported.present
          THEN {[isArray |-> TRUE, items |-> exported.doc],
                [isArray |-> TRUE, items |-> StripIds(exported.doc)]}
          ELSE {})

\* ---------------------------------------------------------------- steps
CanServe == served < MaxServed

Served(op, path, req, r) ==
  /\ served' = served + 1
  /\ file' = r.store
  /\ last' = [op |-> op, path |-> path, req |-> req, status |-> r.status,
              body |-> r.body, pre |-> file, post |-> r.store, t |-> now,
              disk |-> writable,
              afterClear |-> (last.op = "clear" /\ last.status = 200)]

Tick ==
  /\ now < MaxClock
  /\ now' = now + 1
  /\ UNCHANGED <<file, writable, exported, last, served, otherVars>>

List ==
  /\ CanServe
  /\ Served("list", 0, NoBody, GetBookmarks(file))
  /\ UNCHANGED <<writable, now, exported, otherVars>>

Create ==
  /\ CanServe
  /\ \E body \in ReqBodies :
       LET r == PostBookmark(file, body, now, writable)
       IN  /\ Len(readBookmarks(r.store)) <= MaxLen
           /\ Served("create", 0, body, r)
  /\ UNCHANGED <<writable, now, exported, otherVars>>

Update ==
  /\ CanServe
  /\ \E path \in PathIds(file), body \in ReqBodies :
       Served("update", path, body, PutBookmark(file, path, body, writable))
  /\ UNCHANGED <<writable, now, exported, otherVars>>

Delete ==
  /\ CanServe
  /\ \E path \in PathIds(file) :
       Served("delete", path, NoBody, DeleteBookmark(file, path, writable))
  /\ UNCHANGED <<writable, now, exported, otherVars>>

ClearAll ==
  /\ CanServe
  /\ Served("clear", 0, NoBody, ClearBookmarks(file, writable))
  /\ UNCHANGED <<writable, now, exported, otherVars>>

Import ==
  /\ CanServe
  /\ \E payload \in ImportPayloads :
       /\ Len(readBookmarks(file)) + Len(payload.items) <= MaxLen
       /\ \E rnd \in [1..Len(payload.items) -> 0..RandSteps] :
            Served("import", 0, payload,
                   ImportBookmarks(file, payload, now, rnd, writable))
  /\ UNCHANGED <<writable, now, exported, otherVars>>

Export ==
  /\ CanServe
  /\ LET r == ExportBookmarks(file)
     IN  /\ exported' = [present |-> TRUE, doc |-> r.body.array, source |-> file]
         /\ Served("export", 0, NoBody, r)
  /\ UNCHANGED <<writable, now, otherVars>>

Next ==
  \/ Tick
  \/ List
  \/ Create
  \/ Update
  \/ Delete
  \/ ClearAll
  \/ Import
  \/ Export

Spec == Init /\ [][Next]_vars

\* ------------------------------------------------- the failing file system
\* The same server on a file system that fails: writeFile starts or stops
\* failing, and the document becomes unreadable.

\* fs.writeFile changes its behaviour
DiskChanges ==
  /\ served < MaxFaultServed
  /\ \E w \in {Written, Refused, Torn} \ {writable} : writable' = w
  /\ UNCHANGED <<file, now, exported, last, served, otherVars>>

\* the document stops parsing, or readFile starts throwing: its text still
\* holds the records
DocumentDamaged ==
  /\ served < MaxFaultServed
  /\ file.parses
  /\ file' = [file EXCEPT !.parses = FALSE]
  /\ UNCHANGED <<writable, now, exported, last, served, otherVars>>

\* bookmarks.json is deleted while the server runs
DocumentRemoved ==
  /\ served < MaxFaultServed
  /\ file # [parses |-> FALSE, value |-> <<>>]
  /\ file' = [parses |-> FALSE, value |-> <<>>]
  /\ UNCHANGED <<writable, now, exported, last, served, otherVars>>

FaultNext ==
  \/ DiskChanges
  \/ DocumentDamaged
  \/ DocumentRemoved
  \/ served < MaxFaultServed /\ Tick
  \/ served < MaxFaultServed /\ List
  \/ served < MaxFaultServed /\ Create
  \/ served < MaxFaultServed /\ Update
  \/ served < MaxFaultServed /\ Delete
  \/ served < MaxFaultServed /\ ClearAll
  \/ served < MaxFaultServed /\ Import
  \/ served < MaxFaultServed /\ Export

FaultSpec == Init /\ [][FaultNext]_vars

\* ------------------------------------------------- interleaved handlers
\* Every handler is an async function: it awaits readBookmarks, computes the
\* new Collection from what it read, and awaits writeBookmarks.  Node runs
\* another handler during each await, so two requests interleave at those
\* points.  A slot of pending holds one request: the document it read
\* (snap), the clock when it read (t), how many writes had landed by then
\* (sawWrites) and, once it has answered, its response and its place among
\* the requests that wrote (order).  The two writeFile calls land one after
\* the other.

\* the handler of a request, run on document f
Handle(f, op, path, req, rnd, t, ok) ==
  CASE op = "create" -> PostBookmark(f, req, t, ok)
    [] op = "update" -> PutBookmark(f, path, req, ok)
    [] op = "delete" -> DeleteBookmark(f, path, ok)
    [] op = "clear"  -> ClearBookmarks(f, ok)
    [] op = "import" -> ImportBookmarks(f, req, t, rnd, ok)

\* a handler that reads the document again when it is about to write
Computed_Reread(p, current, ok) ==
  Handle(current, p.op, p.path, p.req, p.rnd, p.t, ok)

\* what the handler of request p computes and answers: it works on the
\* document it read, not on the document as it is when the write lands
Computed(p, current, ok) ==
  Handle(p.snap, p.op, p.path, p.req, p.rnd, p.t, ok)

\* the answer is a success, so the handler has written
Success(status) == status \in {200, 201}

WritesLanded == Cardinality({i \in DOMAIN pending : pending[i].order > 0})

\* the mutating requests that can race
RaceRequests ==
  {[op |-> "create", path |-> 0, req |-> body, rnd |-> <<>>] : body \in ReqBodies}
    \cup {[op |-> "update", path |-> path, req |-> body, rnd |-> <<>>] :
            path \in PathIds(file), body \in ReqBodies}
    \cup {[op |-> "delete", path |-> path, req |-> NoBody, rnd |-> <<>>] :
            path \in PathIds(file)}
    \cup {[op |-> "clear", path |-> 0, req |-> NoBody, rnd |-> <<>>]}
    \cup UNION {{[op |-> "import", path |-> 0, req |-> payload, rnd |-> rnd] :
                   rnd \in [1..Len(payload.items) -> 0..RandSteps]} :
                 payload \in ImportPayloads}

\* request i arrives (the requests are numbered as they arrive) and its
\* handler runs up to the end of readBookmarks
\* (Clear-all reads nothing; a request that fails validation is answered
\* at once)
RaceRead(i) ==
  /\ pending[i].phase = "idle"
  /\ \A j \in 1..(i - 1) : pending[j].phase # "idle"
  /\ \E q \in RaceRequests :
       LET p == [NoRequest EXCEPT !.op = q.op, !.path = q.path, !.req = q.req,
                                  !.rnd = q.rnd, !.snap = file, !.t = now,
                                  !.sawWrites = WritesLanded]
           r == Computed(p, file, writable)
       IN  pending' = [pending EXCEPT ![i] =
                         IF r.status = 400
                         THEN [p EXCEPT !.phase = "done", !.status = 400, !.body = r.body]
                         ELSE [p EXCEPT !.phase = "read"]]
  /\ UNCHANGED <<serverVars, clientVars>>

\* the handler of request i resumes after the read, computes, and its
\* writeBookmarks lands (a request answered 404 writes nothing)
RaceWrite(i) ==
  /\ pending[i].phase = "read"
  /\ LET p == pending[i]
         r == Computed(p, file, writable)
     IN  /\ file' = IF Success(r.status) THEN r.store ELSE file
         /\ pending' = [pending EXCEPT ![i] =
                          [p EXCEPT !.phase = "done", !.status = r.status,
                                    !.body = r.body,
                                    !.order = IF Success(r.status)
                                              THEN WritesLanded + 1 ELSE 0]]
  /\ UNCHANGED <<writable, now, exported, last, served, clientVars>>

RaceNext ==
  \/ Tick
  \/ \E i \in DOMAIN pending : RaceRead(i)
  \/ \E i \in DOMAIN pending : RaceWrite(i)

RaceSpec == Init /\ [][RaceNext]_vars

\* ------------------------------------------------------------- the client
\* Strings.  toLowerCase and includes work on the characters of a string;
\* Chars spells out every string the model uses.
Chars(s) ==
  CASE s = "" -> <<>>
    [] s = "A" -> <<"A">>
    [] s = "B" -> <<"B">>
    [] s = "X" -> <<"X">>
    [] s = "Y" -> <<"Y">>
    [] s = "u" -> <<"u">>
    [] s = "x" -> <<"x">>
    [] s = "y" -> <<"y">>
    [] s = "c" -> <<"c">>
    [] s = "d" -> <<"d">>
    [] s = "REACT" -> <<"R", "E", "A", "C", "T">>
    [] s = "React Documentation" ->
       <<"R", "e", "a", "c", "t", " ", "D", "o", "c", "u", "m", "e",
         "n", "t", "a", "t", "i", "o", "n">>
    [] s = "https://react.dev" ->
       <<"h", "t", "t", "p", "s", ":", "/", "/", "r", "e", "a", "c",
         "t", ".", "d", "e", "v">>
    [] s = "Official React documentation and guides" ->
       <<"O", "f", "f", "i", "c", "i", "a", "l", " ", "R", "e", "a",
         "c", "t", " ", "d", "o", "c", "u", "m", "e", "n", "t", "a",
         "t", "i", "o", "n", " ", "a", "n", "d", " ", "g", "u", "i",
         "d", "e", "s">>
    [] s = "MDN Web Docs" ->
       <<"M", "D", "N", " ", "W", "e", "b", " ", "D", "o", "c", "s">>
    [] s = "https://developer.mozilla.org" ->
       <<"h", "t", "t", "p", "s", ":", "/", "/", "d", "e", "v", "e",
         "l", "o", "p", "e", "r", ".", "m", "o", "z", "i", "l", "l",
         "a", ".", "o", "r", "g">>
    [] s = "Web development resources and references" ->
       <<"W", "e", "b", " ", "d", "e", "v", "e", "l", "o", "p", "m",
         "e", "n", "t", " ", "r", "e", "s", "o", "u", "r", "c", "e",
         "s", " ", "a", "n", "d", " ", "r", "e", "f", "e", "r", "e",
         "n", "c", "e", "s">>
    [] s = "GitHub" -> <<"G", "i", "t", "H", "u", "b">>
    [] s = "https://github.com" ->
       <<"h", "t", "t", "p", "s", ":", "/", "/", "g", "i", "t", "h",
         "u", "b", ".", "c", "o", "m">>
    [] s = "Code hosting and collaboration platform" ->
       <<"C", "o", "d", "e", " ", "h", "o", "s", "t", "i", "n", "g",
         " ", "a", "n", "d", " ", "c", "o", "l", "l", "a", "b", "o",
         "r", "a", "t", "i", "o", "n", " ", "p", "l", "a", "t", "f",
         "o", "r", "m">>

\* one character of String.prototype.toLowerCase
LowerChar(ch) ==
  CASE ch = "A" -> "a" [] ch = "B" -> "b" [] ch = "C" -> "c"
    [] ch = "D" -> "d" [] ch = "E" -> "e" [] ch = "F" -> "f"
    [] ch = "G" -> "g" [] ch = "H" -> "h" [] ch = "I" -> "i"
    [] ch = "J" -> "j" [] ch = "K" -> "k" [] ch = "L" -> "l"
    [] ch = "M" -> "m" [] ch = "N" -> "n" [] ch = "O" -> "o"
    [] ch = "P" -> "p" [] ch = "Q" -> "q" [] ch = "R" -> "r"
    [] ch = "S" -> "s" [] ch = "T" -> "t" [] ch = "U" -> "u"
    [] ch = "V" -> "v" [] ch = "W" -> "w" [] ch = "X" -> "x"
    [] ch = "Y" -> "y" [] ch = "Z" -> "z"
    [] OTHER -> ch

\* s.toLowerCase(), as characters
toLowerCase(s) == [i \in 1..Len(Chars(s)) |-> LowerChar(Chars(s)[i])]

\* hay.includes(needle), on characters
includes(hay, needle) ==
  \E k \in 0..(Len(hay) - Len(needle)) :
    \A i \in 1..Len(needle) : hay[k + i] = needle[i]

SearchTerms == {"", "REACT"}

\* the texts of the model's bookmarks
Texts ==
  {"", "A", "B", "X", "Y", "u", "x", "y", "c", "d",
   "React Documentation", "https://react.dev",
   "Official React documentation and guides",
   "MDN Web Docs", "https://developer.mozilla.org",
   "Web development resources and references",
   "GitHub", "https://github.com", "Code hosting and collaboration platform"}

\* text.toLowerCase().includes(term.toLowerCase()), for every text and term
Hit ==
  [text \in Texts, term \in SearchTerms |->
     includes(toLowerCase(text), toLowerCase(term))]

\* const categories = ['All', ...new Set(bookmarks.map(b => b.category)
\*                                                .filter(Boolean))]
RECURSIVE Unique(_)
Unique(seq) ==
  IF seq = <<>> THEN <<>>
  ELSE LET front == Unique(SubSeq(seq, 1, Len(seq) - 1))
           x     == seq[Len(seq)]
       IN  IF \E i \in 1..Len(front) : front[i] = x THEN front ELSE Append(front, x)

categories(bookmarks) ==
  LET all == [i \in 1..Len(bookmarks) |-> Get(bookmarks[i], "category")]
  IN  <<"All">> \o Unique(FilterSeq(all, {i \in 1..Len(all) : ~Falsy(all[i])}))

\* one evaluation of the filter callback on a bookmark: a field that is
\* undefined has no toLowerCase, so reaching it throws a TypeError; || stops
\* at the first operand that is true
matchesSearch(bookmark, term) ==
  LET has(k)  == Get(bookmark, k) # Undefined
      hit(k)  == Hit[bookmark[k], term]
  IN  IF ~has("title") THEN "throws"
      ELSE IF hit("title") THEN "true"
      ELSE IF ~has("description") THEN "throws"
      ELSE IF hit("description") THEN "true"
      ELSE IF ~has("url") THEN "throws"
      ELSE IF hit("url") THEN "true"
      ELSE "false"

matchesCategory(bookmark, category) ==
  category = "All" \/ Get(bookmark, "category") = category

\* const filteredBookmarks = bookmarks.filter(...): the visible set, or the
\* TypeError that ends the render (threw; React then unmounts the component)
filteredBookmarks(bookmarks, term, category) ==
  LET verdict == [i \in 1..Len(bookmarks) |-> matchesSearch(bookmarks[i], term)]
  IN  IF \E i \in 1..Len(bookmarks) : verdict[i] = "throws"
      THEN [threw |-> TRUE, list |-> <<>>]
      ELSE [threw |-> FALSE,
            list |-> FilterSeq(bookmarks,
                               {i \in 1..Len(bookmarks) :
                                  /\ verdict[i] = "true"
                                  /\ matchesCategory(bookmarks[i], category)})]

\* what the page shows
Visible == filteredBookmarks(mirror, searchTerm, selectedCategory)

\* the prefixes of the catch blocks
Prefix(b, kind) ==
  CASE kind = "list"   -> "Failed to load bookmarks"
    [] kind = "create" -> "Failed to save bookmark"
    [] kind = "update" -> "Failed to save bookmark"
    [] kind = "delete" -> "Failed to delete bookmark"
    [] kind = "clear"  -> IF b = 1 THEN "Failed to clear bookmarks" ELSE "Failed to clear"
    [] kind = "import" -> IF b = 1 THEN "Failed to import bookmarks" ELSE "Import failed"

\* the first version of handleDelete, clearAllBookmarks and importBookmarks
\* starts with setError(null); the second does not
ErrorAtStart(b, kind) ==
  IF kind \in {"create", "update"} \/ b = 1 THEN NoError ELSE error

\* the user's inputs: what the form holds on Save, the files picked for
\* Import, what is typed into the search box
FormData ==
  { [title |-> "A", url |-> "u", category |-> "All", description |-> ""],
    [title |-> "B", url |-> "u", category |-> "c", description |-> "d"] }

ImportFiles ==
  { [isArray |-> TRUE, items |-> << [title |-> "X", url |-> "x"] >>],
    [isArray |-> FALSE, items |-> <<>>] }

\* ---------------------------------------------------- the client's steps
InFlight == {i \in DOMAIN calls : calls[i].phase # "idle"}
FreeSlot == CHOOSE i \in DOMAIN calls \ InFlight :
              \A j \in DOMAIN calls \ InFlight : i <= j

CanCall == trail.issued < MaxCalls /\ InFlight # DOMAIN calls

\* the user can act on the page: it is not the loading screen, the render did
\* not throw, and no effect is due (React runs the effects of a render before
\* it handles the next event)
Usable == ~loading /\ ~dirty /\ ~Visible.threw

\* the user does something that makes no call: a touch of the form or of the
\* filters, Dismiss, the choice of a file that holds no array
Gesture ==
  /\ Usable
  /\ trail.gestures < MaxGestures
  /\ trail' = [trail EXCEPT !.gestures = @ + 1]

\* a render is committed; in the second version its effect is then due
Render(changed) == dirty' = (build = 2 /\ (dirty \/ changed))

\* apiCall(...) starts: fetch is under way, the async handler is suspended
\* with the bookmarks and editingBookmark of the render it was made in
Call(kind, path, req) ==
  /\ calls' = [calls EXCEPT ![FreeSlot] =
                 [NoCall EXCEPT !.phase = "sent", !.kind = kind, !.path = path,
                                !.req = req, !.bookmarks = mirror,
                                !.editing = editingBookmark]]
  /\ trail' = [trail EXCEPT !.issued = @ + 1,
                            !.lists = IF kind = "list" THEN @ + 1 ELSE @,
                            !.overlapped = @ \/ (kind # "list" /\ InFlight # {}),
                            !.raced = @ \/ (/\ kind # "list"
                                             /\ \E j \in InFlight :
                                                  calls[j].kind # "list")]

\* the component mounts: the first render, and its effect calls loadBookmarks
Mount ==
  /\ trail.issued = 0
  /\ Call("list", 0, NoBody)
  /\ Render(FALSE)
  /\ UNCHANGED <<serverVars, pending, build, mirror, loading, error, searchTerm,
                 selectedCategory, editingBookmark>>

\* the second version's effect, due after every render because loadBookmarks
\* is a new function in each: loadBookmarks() starts
Effect ==
  /\ build = 2
  /\ dirty
  /\ CanCall
  /\ Call("list", 0, NoBody)
  /\ loading' = TRUE
  /\ error' = NoError
  /\ dirty' = (~loading \/ error # NoError)
  /\ UNCHANGED <<serverVars, pending, build, mirror, searchTerm,
                 selectedCategory, editingBookmark>>

\* handleSubmit, up to its await: Save with a title and a url in the form
Submit ==
  /\ Usable
  /\ CanCall
  /\ \E formData \in FormData :
       IF editingBookmark # NoRecord
       THEN Call("update", editingBookmark.id, formData)
       ELSE Call("create", 0, formData)
  /\ error' = NoError
  /\ Render(error # NoError)
  /\ UNCHANGED <<serverVars, pending, build, mirror, loading, searchTerm,
                 selectedCategory, editingBookmark>>

\* handleEdit(bookmark), on a bookmark the page shows
Edit ==
  /\ Gesture
  /\ \E i \in 1..Len(Visible.list) : editingBookmark' = Visible.list[i]
  /\ Render(TRUE)
  /\ UNCHANGED <<serverVars, pending, build, mirror, loading, error, searchTerm,
                 selectedCategory, calls>>

\* resetForm
Cancel ==
  /\ Usable
  /\ editingBookmark # NoRecord
  /\ editingBookmark' = NoRecord
  /\ Render(TRUE)
  /\ UNCHANGED <<serverVars, pending, build, mirror, loading, error, searchTerm,
                 selectedCategory, calls, trail>>

\* handleDelete(bookmark.id), up to its await, on a bookmark the page shows
DeleteClick ==
  /\ Usable
  /\ CanCall
  /\ \E i \in 1..Len(Visible.list) : Call("delete", Visible.list[i].id, NoBody)
  /\ error' = ErrorAtStart(build, "delete")
  /\ Render(FALSE)
  /\ UNCHANGED <<serverVars, pending, build, mirror, loading, searchTerm,
                 selectedCategory, editingBookmark>>

\* clearAllBookmarks, confirmed, up to its await; the button is there while
\* the mirror is not empty
ClearClick ==
  /\ Usable
  /\ Len(mirror) > 0
  /\ CanCall
  /\ Call("clear", 0, NoBody)
  /\ error' = ErrorAtStart(build, "clear")
  /\ Render(FALSE)
  /\ UNCHANGED <<serverVars, pending, build, mirror, loading, searchTerm,
                 selectedCategory, editingBookmark>>

\* importBookmarks and reader.onload, up to the await: a file that holds no
\* array ends in the catch at once
ImportFile ==
  /\ \E picked \in ImportFiles :
       IF picked.isArray
       THEN /\ Usable
            /\ CanCall
            /\ Call("import", 0, picked)
            /\ error' = ErrorAtStart(build, "import")
            /\ Render(FALSE)
       ELSE /\ Gesture
            /\ error' = [prefix  |-> Prefix(build, "import"),
                         message |-> IF build = 1
                                     THEN "Invalid file format - expected an array of bookmarks"
                                     ELSE "Invalid format"]
            /\ Render(TRUE)
            /\ UNCHANGED calls
  /\ UNCHANGED <<serverVars, pending, build, mirror, loading, searchTerm,
                 selectedCategory, editingBookmark>>

\* the Dismiss button of the error message
Dismiss ==
  /\ Gesture
  /\ error # NoError
  /\ error' = NoError
  /\ Render(TRUE)
  /\ UNCHANGED <<serverVars, pending, build, mirror, loading, searchTerm,
                 selectedCategory, editingBookmark, calls>>

\* typing in the search box
Search ==
  /\ Gesture
  /\ \E term \in SearchTerms \ {searchTerm} : searchTerm' = term
  /\ Render(TRUE)
  /\ UNCHANGED <<serverVars, pending, build, mirror, loading, error,
                 selectedCategory, editingBookmark, calls>>

\* choosing an option of the category select
SelectCategory ==
  /\ Gesture
  /\ LET options == categories(mirror)
     IN  \E i \in 1..Len(options) :
           /\ options[i] # selectedCategory
           /\ selectedCategory' = options[i]
  /\ Render(TRUE)
  /\ UNCHANGED <<serverVars, pending, build, mirror, loading, error, searchTerm,
                 editingBookmark, calls>>

\* the server handles the request of call i and its response arrives; the
\* requests of one page reach the server in different milliseconds
ServerAnswers(i) ==
  /\ calls[i].phase = "sent"
  /\ LET c == calls[i]
     IN  \E rnd \in [1..(IF c.kind = "import" THEN Len(c.req.items) ELSE 0) -> 0..RandSteps] :
           LET r == IF c.kind = "list"
                    THEN GetBookmarks(file)
                    ELSE Handle(file, c.kind, c.path, c.req, rnd, now, writable)
           IN  /\ Len(readBookmarks(r.store)) <= MaxLen
               /\ file' = r.store
               /\ now' = now + 1
               /\ calls' = [calls EXCEPT ![i] =
                              [c EXCEPT !.phase = "answered", !.status = r.status,
                                        !.body = r.body]]
  /\ UNCHANGED <<writable, exported, last, served, pending, build, mirror,
                 loading, error, searchTerm, selectedCategory, editingBookmark,
                 dirty, trail>>

\* fetch rejects: the request or the response of call i is lost
NetworkFails(i) ==
  /\ calls[i].phase \in {"sent", "answered"}
  /\ ~trail.lost
  /\ calls' = [calls EXCEPT ![i] =
                 [@ EXCEPT !.phase = "failed", !.status = 0,
                           !.body = Err("Failed to fetch")]]
  /\ trail' = [trail EXCEPT !.lost = TRUE]
  /\ UNCHANGED <<serverVars, pending, build, mirror, loading, error, searchTerm,
                 selectedCategory, editingBookmark, dirty>>

\* the catch block of the handler that awaited call c:
\* setError(`${prefix}: ${error.message}`)
Caught_Silent(b, c) == NoError
Caught(b, c) == [prefix |-> Prefix(b, c.kind), message |-> c.body.error]

\* setBookmarks(...) of the handler that awaited call c, from its closure
Reconciled(c) ==
  CASE c.kind = "list"   -> c.body.array
    [] c.kind = "create" -> Append(c.bookmarks, c.body)
    [] c.kind = "update" ->
         [k \in 1..Len(c.bookmarks) |->
            IF c.bookmarks[k].id = c.editing.id THEN c.body ELSE c.bookmarks[k]]
    [] c.kind = "delete" ->
         FilterSeq(c.bookmarks,
                   {k \in 1..Len(c.bookmarks) : c.bookmarks[k].id # c.path})
    [] c.kind = "clear"  -> <<>>

\* the handler suspended on call i resumes: apiCall returns the body of a
\* response that is ok, and throws otherwise
Settle(i) ==
  /\ calls[i].phase \in {"answered", "failed"}
  /\ ~Visible.threw
  /\ LET c  == calls[i]
         ok == c.phase = "answered" /\ Success(c.status)
         reload == ok /\ c.kind = "import"
     IN  /\ reload => trail.issued < MaxCalls
         /\ mirror' = IF ok /\ c.kind # "import" THEN Reconciled(c) ELSE mirror
         /\ error' = IF ok
                     THEN (IF reload THEN NoError ELSE error)
                     ELSE Caught(build, c)
         /\ loading' = IF reload THEN TRUE
                       ELSE IF c.kind = "list" THEN FALSE ELSE loading
         /\ editingBookmark' = IF ok /\ c.kind = "update" THEN NoRecord
                               ELSE editingBookmark
         /\ calls' = [calls EXCEPT ![i] =
                        IF reload
                        THEN [NoCall EXCEPT !.phase = "sent", !.kind = "list",
                                            !.bookmarks = mirror,
                                            !.editing = editingBookmark]
                        ELSE NoCall]
         /\ trail' = [trail EXCEPT
                        !.issued  = IF reload THEN @ + 1 ELSE @,
                        !.lists   = IF reload THEN @ + 1 ELSE @,
                        !.reloads = IF reload THEN @ + 1 ELSE @,
                        !.failed  = @ \/ (~ok /\ c.kind # "list")]
  /\ Render(TRUE)
  /\ UNCHANGED <<serverVars, pending, build, searchTerm, selectedCategory>>

ClientNext ==
  \/ Mount
  \/ Effect
  \/ Submit
  \/ Edit
  \/ Cancel
  \/ DeleteClick
  \/ ClearClick
  \/ ImportFile
  \/ Dismiss
  \/ Search
  \/ SelectCategory
  \/ \E i \in DOMAIN calls : ServerAnswers(i)
  \/ \E i \in DOMAIN calls : NetworkFails(i)
  \/ \E i \in DOMAIN calls : Settle(i)

\* the document after an earlier Import of two records, one whose id is a
\* whole number of milliseconds and one whose id has a fraction
ImportedDocument ==
  ImportBookmarks(SeedDocument,
                  [isArray |-> TRUE,
                   items |-> << [title |-> "X", url |-> "x"],
                                [title |-> "Y", url |-> "y", category |-> "c",
                                 description |-> "d", dateAdded |-> 0] >>],
                  StartClock, <<0, 1>>, Written).store

\* a page is opened, with either version of the component, on a server that
\* holds the seed document or has served an Import before
ClientInit ==
  /\ \E f \in {SeedDocument, ImportedDocument} : ServerStarted(f, StartClock + 1)
  /\ build \in {1, 2}
  /\ Unmounted

ClientSpec == ClientInit /\ [][ClientNext]_vars

\* ------------------------------------------------------- the properties
\* The persisted Collection now, and the one the last request found.
Doc    == readBookmarks(file)
PreDoc == readBookmarks(last.pre)

IdsOf(doc) == {doc[i].id : i \in {j \in 1..Len(doc) : "id" \in DOMAIN doc[j]}}

\* the request carries a non-empty title and a non-empty url
HasTitleAndUrl(body) ==
  /\ "title" \in DOMAIN body /\ body.title # ""
  /\ "url" \in DOMAIN body /\ body.url # ""

\* doc without its i-th record
Without(doc, i) == SubSeq(doc, 1, i - 1) \o SubSeq(doc, i + 1, Len(doc))

\* a record without its id
NoId(o) == [k \in DOMAIN o \ {"id"} |-> o[k]]

\* how many records of doc equal o when ids are left out
Copies(doc, o) == Cardinality({i \in 1..Len(doc) : NoId(doc[i]) = o})

\* C1: a Create with non-empty title and url returns a record whose id was
\* not in the Collection before the call, and the Collection afterwards
\* holds a record with that id and the returned title, url, category,
\* description and dateAdded.
C1_CreateReturnsFreshStoredRecord ==
  (last.op = "create" /\ HasTitleAndUrl(last.req)) =>
     /\ last.status = 201
     /\ last.body.id \notin IdsOf(PreDoc)
     /\ \E i \in 1..Len(Doc) : Doc[i] = last.body

\* C2: no two records of the persisted Collection have the same id.
C2_IdsUnique ==
  \A i, j \in 1..Len(Doc) : i # j => Doc[i].id # Doc[j].id

\* the record an Update with this body leaves in place of old
UpdatedRecord(old, body) ==
  [k \in DOMAIN old \cup {"title", "url", "category", "description"} |->
     IF k \in {"title", "url"} THEN body[k]
     ELSE IF k \in {"category", "description"}
          THEN (IF k \in DOMAIN body THEN body[k] ELSE "")
          ELSE old[k]]

\* C3: an Update with non-empty title and url whose id is the id of a
\* stored record succeeds; that record keeps id, dateAdded and position and
\* takes the request's title, url, category and description ("" for an
\* omitted one); every other record is unchanged.
C3_UpdateRewritesTheAddressedRecord ==
  (/\ last.op = "update"
   /\ HasTitleAndUrl(last.req)
   /\ last.path \in IdsOf(PreDoc)) =>
     /\ last.status = 200
     /\ \E i \in 1..Len(PreDoc) :
          /\ PreDoc[i].id = last.path
          /\ Doc = [PreDoc EXCEPT ![i] = UpdatedRecord(PreDoc[i], last.req)]

\* C4: a Delete carrying the id of a stored record (seeded, created or
\* imported) succeeds and leaves the previous Collection without that
\* record, the others unchanged and in the same order.
C4_DeleteRemovesTheAddressedRecord ==
  (last.op = "delete" /\ last.path \in IdsOf(PreDoc)) =>
     /\ last.status = 200
     /\ \E i \in 1..Len(PreDoc) :
          /\ PreDoc[i].id = last.path
          /\ Doc = Without(PreDoc, i)

\* C5: an Update (with title and url) or a Delete whose id is the id of no
\* stored record is answered 404 and writes nothing.
C5_UnknownIdIsNotFound ==
  (/\ last.op \in {"update", "delete"}
   /\ last.op = "update" => HasTitleAndUrl(last.req)
   /\ last.path \notin IdsOf(PreDoc)) =>
     /\ last.status = 404
     /\ file = last.pre

\* C6: a Create or an Update whose title or url is missing or empty is
\* answered 400 and leaves the persisted Collection unchanged, whether or
\* not the id of the Update is the id of a stored record.
C6_MissingFieldIsRejected ==
  (last.op \in {"create", "update"} /\ ~HasTitleAndUrl(last.req)) =>
     /\ last.status = 400
     /\ file = last.pre

C6_Witness ==
  /\ last.op = "update"
  /\ "title" \notin DOMAIN last.req
  /\ last.path \in IdsOf(PreDoc)
  /\ last.status = 400
  /\ Len(PreDoc) > 0

\* C7: an Import of an array of n records answers count n, and the
\* Collection becomes the previous Collection, unchanged and in order,
\* followed by exactly n new records in input order.
C7_ImportAppendsInOrder ==
  (last.op = "import" /\ last.req.isArray) =>
     LET n == Len(last.req.items)
         m == Len(PreDoc)
     IN  /\ last.status = 200
         /\ last.body.count = n
         /\ Len(Doc) = m + n
         /\ SubSeq(Doc, 1, m) = PreDoc
         /\ \A i \in 1..n : NoId(Doc[m + i]) = NoId(last.req.items[i])

C7_Witness ==
  /\ last.op = "import"
  /\ last.req.isArray
  /\ Len(last.req.items) = 2
  /\ last.req.items[1] # last.req.items[2]
  /\ Len(PreDoc) > 0
  /\ last.status = 200

\* C8: every record stored by Import has a category and a description; a
\* field the input record lacks is stored as the empty string.
C8_ImportDefaultsMissingFields ==
  (last.op = "import" /\ last.status = 200) =>
     \A i \in 1..Len(last.req.items) :
       LET stored == Doc[Len(PreDoc) + i]
           given  == last.req.items[i]
       IN  \A k \in {"category", "description"} :
             /\ k \in DOMAIN stored
             /\ k \notin DOMAIN given => stored[k] = ""

\* C9: the ids Import assigns are pairwise distinct and distinct from every
\* id already in the Collection (so an id supplied in the input, which may
\* be that of a stored record, is never kept).
C9_ImportIdsAreFresh ==
  (last.op = "import" /\ last.status = 200) =>
     LET n == Len(last.req.items)
         m == Len(PreDoc)
     IN  /\ \A i, j \in 1..n : i # j => Doc[m + i].id # Doc[m + j].id
         /\ \A i \in 1..n : Doc[m + i].id \notin IdsOf(PreDoc)

\* C10: after an Export, an Import of the exported records with their ids
\* stripped leaves a Collection that, ids aside, holds exactly the records
\* present before the Import plus one copy of each record of the exported
\* Collection.
C10_ExportThenImportAddsOneCopyEach ==
  (/\ last.op = "import"
   /\ exported.present
   /\ last.req = [isArray |-> TRUE, items |-> StripIds(exported.doc)]) =>
     /\ last.status = 200
     /\ LET was == readBookmarks(exported.source)
        IN  \A o \in {NoId(Doc[i]) : i \in 1..Len(Doc)}
                      \cup {NoId(was[i]) : i \in 1..Len(was)} :
              Copies(Doc, o) = Copies(PreDoc, o) + Copies(was, o)

C10_Witness ==
  /\ last.op = "import"
  /\ exported.present
  /\ Len(exported.doc) >= 2
  /\ last.req = [isArray |-> TRUE, items |-> StripIds(exported.doc)]
  /\ last.pre # exported.source
  /\ Len(PreDoc) > 0
  /\ last.status = 200

\* C11: a List served right after a successful Clear-all, with no request
\* in between, returns the empty sequence, whatever the Collection was
\* before the Clear-all.
C11_ListAfterClearIsEmpty ==
  (last.op = "list" /\ last.afterClear) =>
     /\ last.status = 200
     /\ last.body = Arr(<<>>)

C11_Witness ==
  /\ last.op = "list"
  /\ last.afterClear
  /\ served = 3
  /\ last.body = Arr(<<>>)

\* ------------------------------------- properties of the failing file system
\* the Collection the last request left, whatever happened to the file since
PostDoc == readBookmarks(last.post)

\* C13: when the document is missing or does not parse, List and Export
\* answer 200 with an empty array, never an error status.
C13_UnreadableDocumentListsEmpty ==
  (last.op \in {"list", "export"} /\ ~last.pre.parses) =>
     /\ last.status = 200
     /\ last.body = Arr(<<>>)

C13_Witness ==
  /\ last.op = "export"
  /\ ~last.pre.parses
  /\ Len(last.pre.value) > 0
  /\ last.status = 200

\* the last request got as far as writing the document
ReachedWrite ==
  CASE last.op = "create" -> HasTitleAndUrl(last.req)
    [] last.op = "update" -> /\ HasTitleAndUrl(last.req)
                             /\ ParseInt(last.path) \in IdsOf(PreDoc)
    [] last.op = "delete" -> ParseInt(last.path) \in IdsOf(PreDoc)
    [] last.op = "clear"  -> TRUE
    [] last.op = "import" -> last.req.isArray
    [] OTHER -> FALSE

\* C14: when the write of the document fails during Create, Update, Delete,
\* Clear-all or Import, the answer is 500, never a success, and the
\* persisted document is the one stored before the request.
C14_FailedWriteIsReportedAndHarmless ==
  (ReachedWrite /\ last.disk # Written) =>
     /\ last.status = 500
     /\ last.post = last.pre

\* the records the text of a document holds, parsable or not
Records(f) == f.value

\* C19: a Create, Update or Import that returns success leaves every record
\* of the document it found in place and unchanged, except the record an
\* Update addresses (by its id, or by the integer part of it), also when
\* the document could not be read or parsed.
C19_SuccessKeepsOtherRecords ==
  (last.op \in {"create", "update", "import"} /\ last.status \in {200, 201}) =>
     LET old == Records(last.pre)
         new == Records(last.post)
     IN  /\ Len(new) >= Len(old)
         /\ \A i \in 1..Len(old) :
              \/ new[i] = old[i]
              \/ /\ last.op = "update"
                 /\ old[i].id \in {last.path, ParseInt(last.path)}

\* ------------------------------------------ properties of interleaved handlers
\* both requests were answered with a success, and each had read the
\* document before any write landed
BothReadBeforeEitherWrote ==
  \A i \in DOMAIN pending :
    /\ pending[i].phase = "done"
    /\ Success(pending[i].status)
    /\ pending[i].sawWrites = 0

\* the request whose write landed k-th
Writer(k) == CHOOSE i \in DOMAIN pending : pending[i].order = k

\* C12: when two mutating requests both read the Collection before either
\* writes and both succeed, the persisted Collection after the second write
\* is what the second writer computed from the old Collection: the first
\* writer's change is not in it (last writer wholly replaces).
C12_LastWriterWhollyReplaces ==
  BothReadBeforeEitherWrote =>
     LET first  == pending[Writer(1)]
         second == pending[Writer(2)]
         old    == first.snap
     IN  /\ second.snap = old
         /\ file = Handle(old, second.op, second.path, second.req,
                          second.rnd, second.t, Written).store

\* both succeed: a Create whose record is lost to a Delete that read the
\* Collection before the Create wrote
C12_Witness ==
  /\ BothReadBeforeEitherWrote
  /\ pending[Writer(1)].op = "create"
  /\ pending[Writer(1)].status = 201
  /\ pending[Writer(2)].op = "delete"
  /\ pending[Writer(2)].status = 200
  /\ ~ \E i \in 1..Len(Doc) : Doc[i] = pending[Writer(1)].body
  /\ Len(Doc) = 2

\* ------------------------------------------------ the client's properties
\* the handler that awaited call i resumes in this step
Resumes(i) ==
  /\ calls[i].phase \in {"answered", "failed"}
  /\ calls'[i] # calls[i]
  /\ calls'[i].phase # "failed"

Succeeded(c) == c.phase = "answered" /\ Success(c.status)

Mutating == {"create", "update", "delete", "clear", "import"}

\* C15: when a Create, Update, Delete, Clear-all or Import call of the client
\* fails, by an error response or by a network failure, the step in which its
\* handler resumes leaves the mirror as it was and puts that failure's
\* message, behind the handler's prefix, in the error slot; and the mirror
\* changes only in a step in which a handler resumes on a success.
C15_FailureLeavesMirror ==
  [][ /\ \A i \in DOMAIN calls :
           (Resumes(i) /\ calls[i].kind \in Mutating /\ ~Succeeded(calls[i]))
             => /\ mirror' = mirror
                /\ error' = [prefix  |-> Prefix(build, calls[i].kind),
                              message |-> calls[i].body.error]
      /\ mirror' # mirror
           => \E i \in DOMAIN calls : Resumes(i) /\ Succeeded(calls[i]) ]_vars

\* a Delete was refused with 404, its handler has resumed, and the mirror
\* still holds the record
C15_Witness ==
  /\ trail.failed
  /\ InFlight = {}
  /\ error = [prefix |-> "Failed to delete bookmark", message |-> "Bookmark not found"]
  /\ Len(mirror) = Len(readBookmarks(file))
  /\ Len(mirror) > 0

\* C16: once the component has mounted, the List requests issued are the one
\* of the mount and one per successful Import, and loading is false whenever
\* no List request is in flight.
C16_OneListPerMountOrReload ==
  trail.issued > 0 =>
    /\ trail.lists = 1 + trail.reloads
    /\ (\A i \in DOMAIN calls : calls[i].kind # "list") => ~loading

\* C17: when the client has made its calls one at a time and none was lost
\* on the network, then whenever no call is in flight the mirror equals the
\* persisted Collection, record for record and in the same order.
C17_MirrorEqualsPersisted ==
  (trail.issued > 0 /\ InFlight = {} /\ ~trail.overlapped /\ ~trail.lost)
    => mirror = readBookmarks(file)

\* the lower-cased term is contained in the lower-cased field k of the record
Contains(bookmark, k, term) ==
  Get(bookmark, k) # Undefined /\ Hit[bookmark[k], term]

Shown(bookmark) ==
  /\ \E k \in {"title", "description", "url"} : Contains(bookmark, k, searchTerm)
  /\ selectedCategory = "All" \/ Get(bookmark, "category") = selectedCategory

\* C18: the visible set is the subsequence of the mirror, in mirror order, of
\* the records whose title, description or url contains the search term,
\* case-insensitively, and whose category is the selected one or the selected
\* one is "All"; with an empty term and "All" it is the whole mirror.
C18_VisibleIsTheFilteredMirror ==
  /\ ~Visible.threw
  /\ Visible.list = FilterSeq(mirror, {i \in 1..Len(mirror) : Shown(mirror[i])})
  /\ (searchTerm = "" /\ selectedCategory = "All") => Visible.list = mirror

\* C20: when two mutating actions of the client were in flight at the same
\* time, every action succeeded and every response has been reconciled, the
\* mirror equals the persisted Collection.
C20_OverlappingActionsReconcile ==
  (InFlight = {} /\ trail.raced /\ ~trail.failed /\ ~trail.lost)
    => mirror = readBookmarks(file)

\* the options of the category select, as the render computes them
Options == categories(mirror)

SelectedIsAnOption ==
  \E i \in 1..Len(Options) : Options[i] = selectedCategory

OptionsAreDistinct ==
  \A i, j \in 1..Len(Options) : Options[i] = Options[j] => i = j

\* C21: in every state of the client the selected category is one of the
\* category options ("All" or a non-empty category of a record of the
\* mirror), and no option occurs twice in the options list.
C21_SelectedCategoryIsAnOption ==
  /\ SelectedIsAnOption
  /\ OptionsAreDistinct

====
